---- MODULE Spec2Model ----
(***************************************************************************)
(* Model of backend/services/llm_service.py and of the image handler of    *)
(* backend/routes/ai_assistant.py: the five assist pipelines               *)
(* (prompt_to_drawings, complete_shape_from_canvas, beautify_canvas_state, *)
(* style_transfer_canvas, recognize_objects_in_box), the rule-based        *)
(* recogniser and the style post-processing.                               *)
(*                                                                         *)
(* JSON values are tagged records.  A backend reply is                     *)
(*   [ty, has, err, detail, objects, object, complete, confidence, label]  *)
(* ty is the JSON type of the reply, has the set of top-level keys it      *)
(* holds, err and detail the values of its "error" and "detail" keys, and  *)
(* the other fields the values of the keys the schemas speak of, each a    *)
(* [ty, items, s, n] record.  Numbers with two decimals are kept as        *)
(* hundredths (0.95 is 95).                                                *)
(*                                                                         *)
(* Spec runs one pipeline call.  SpecRecognize, SpecMapper, SpecBBox and   *)
(* SpecStyle call _rule_based_recognize, _map_style_to_brush,              *)
(* _bbox_from_path and _postprocess_style_objects on their own, over the   *)
(* arguments their callers can hand them.  SpecLive is Spec under weak     *)
(* fairness, SpecTwo interleaves two pipeline calls, SpecMessages builds   *)
(* the message lists of both wrappers of a mode, and SpecImage runs the    *)
(* view function of the image endpoint.                                    *)
(***************************************************************************)
EXTENDS Integers, Sequences, FiniteSets, TLC

\* ------------------------------------------------------------- bounds
\* longest "objects" list of a backend reply in the pipeline specification
MaxItems == 1
\* longest canvasState.objects / selection of a pipeline call
MaxCanvas == 2
\* longest selection handed to the rule-based recogniser alone
MaxSel == 4

Modes == {"synthesize", "complete", "beautify", "style", "recognize"}

\* all sequences over S of length at most n
SeqsUpTo(S, n) == UNION {[1..k -> S] : k \in 0..n}

\* ------------------------------------------------------ drawing objects
\* A colour "#RRGGBB" is its six hex digits; ok = FALSE is a value that is
\* no such string (hex_to_rgb then answers (0,0,0)).
Hex(d) == [ok |-> TRUE, d |-> d]
BadHex == [ok |-> FALSE, d |-> <<0, 0, 0, 0, 0, 0>>]
Black == Hex(<<0, 0, 0, 0, 0, 0>>)
\* #8B4513 saddle brown, #228B22 forest green, #FF0000 red
Brown == Hex(<<8, 11, 4, 5, 1, 3>>)
Green == Hex(<<2, 2, 8, 11, 2, 2>>)
Red == Hex(<<15, 15, 0, 0, 0, 0>>)

NoText == [isStr |-> FALSE, s |-> ""]
Text(s) == [isStr |-> TRUE, s |-> s]
\* The value under "x" or "y" of a point: a number ("num", v), no such key
\* ("absent": .get answers 0), a value float() raises on ("bad": None, a
\* record, a string that spells no number), or one float() turns into NaN
\* ("nan": the JSON token NaN, the string "nan").
Num(v) == [k |-> "num", v |-> v]
NoCoord == [k |-> "absent", v |-> 0]
BadCoord == [k |-> "bad", v |-> 0]
NaNCoord == [k |-> "nan", v |-> 0]
\* A point {"x": .., "y": ..}; ok = FALSE is a value that is no record.
PtOf(cx, cy) == [ok |-> TRUE, x |-> cx, y |-> cy]
Pt(x, y) == PtOf(Num(x), Num(y))
NoPoint == [ok |-> FALSE, x |-> NoCoord, y |-> NoCoord]

\* metadata value of an object: ty "absent" (no key), "dict", "null", "str";
\* a field that is "" is a key the record does not hold
NoMeta ==
  [ty |-> "absent", drawingType |-> "", brushType |-> "", brushParams |-> "",
   stampData |-> ""]
Meta(dt, bt, bp) ==
  [ty |-> "dict", drawingType |-> dt, brushType |-> bt, brushParams |-> bp,
   stampData |-> ""]
BadMeta(t) == [NoMeta EXCEPT !.ty = t]

\* A drawing object (an element of canvasState.objects, of a selection or of
\* a reply's "objects").  isDict = FALSE is an element that is no JSON record.
\* pdKind is "dict", "absent" or "bad" (pathData present but no record);
\* pointsKind is "list", "absent" or "bad" (points present but no list), points
\* the entries of the list; start and end are ok = FALSE when absent or no
\* record; coordinates are in units of 1/scale pixel; lw is lineWidth
\* (num = FALSE: not a number).
BaseObj ==
  [isDict |-> TRUE, pdKind |-> "dict", ptype |-> "", tool |-> "",
   text |-> NoText, pointsKind |-> "absent", points |-> <<>>,
   start |-> NoPoint, end |-> NoPoint, color |-> Black,
   lw |-> [num |-> TRUE, v |-> 2], meta |-> NoMeta, image |-> FALSE,
   scale |-> 1]

Shape(t, c) == [BaseObj EXCEPT !.ptype = t, !.tool = "shape", !.color = c]
Circle(c) == [Shape("circle", c) EXCEPT !.start = Pt(10, 10), !.end = Pt(20, 10)]
Rect(c) == [Shape("rectangle", c) EXCEPT !.start = Pt(0, 0), !.end = Pt(40, 20)]
Poly(n, c) ==
  [Shape("polygon", c) EXCEPT !.pointsKind = "list",
                              !.points = [i \in 1..n |-> Pt(10 * i, 5 * i * i)]]
TextObj(s) == [Shape("text", Black) EXCEPT !.text = Text(s)]
Stroke(c) ==
  [BaseObj EXCEPT !.ptype = "stroke", !.tool = "freehand", !.color = c,
                  !.pointsKind = "list", !.points = <<Pt(0, 0), Pt(10, 20)>>]
NonDictObj == [BaseObj EXCEPT !.isDict = FALSE, !.pdKind = "absent"]
BadPathObj == [BaseObj EXCEPT !.pdKind = "bad"]

\* ---------------------------------------------------------- JSON replies
\* A value under a key: its JSON type, its elements when a list, its text when
\* a string, its hundredths when a number.
Absent == [ty |-> "absent", items |-> <<>>, s |-> "", n |-> 0]
V(t) == [Absent EXCEPT !.ty = t]
L(items) == [Absent EXCEPT !.ty = "list", !.items = items]
S(s) == [Absent EXCEPT !.ty = "str", !.s = s]
N(n) == [Absent EXCEPT !.ty = "num", !.n = n]

EmptyDict ==
  [ty |-> "dict", has |-> {}, err |-> "", detail |-> "", objects |-> Absent,
   object |-> Absent, complete |-> Absent, confidence |-> Absent,
   label |-> Absent]
NonDict(t) == [EmptyDict EXCEPT !.ty = t]
NoReply == NonDict("none")

KeysOf(r) ==
  (IF r.err # "" THEN {"error"} ELSE {})
    \cup (IF r.detail # "" THEN {"detail"} ELSE {})
    \cup (IF r.objects.ty # "absent" THEN {"objects"} ELSE {})
    \cup (IF r.object.ty # "absent" THEN {"object"} ELSE {})
    \cup (IF r.complete.ty # "absent" THEN {"complete"} ELSE {})
    \cup (IF r.confidence.ty # "absent" THEN {"confidence"} ELSE {})
    \cup (IF r.label.ty # "absent" THEN {"label"} ELSE {})
WithKeys(r) == [r EXCEPT !.has = KeysOf(r)]

\* {"error": code, "detail": str(e)}: what every backend wrapper returns from
\* its except clause
ErrorPayload(code, detail) ==
  WithKeys([EmptyDict EXCEPT !.err = code, !.detail = detail])

\* ------------------------------------------- rule-based recogniser
None == NonDict("None")

RuleHit(label, conf) ==
  WithKeys([EmptyDict EXCEPT !.label = S(label), !.confidence = N(conf)])

\* count_type(t): objects whose pathData is a record of type t
count_type(objs, t) ==
  Cardinality({i \in 1..Len(objs) : objs[i].pdKind = "dict" /\ objs[i].ptype = t})

\* is_text(o), for an o whose pathData is a record or absent
is_text(o) == o.pdKind = "dict" /\ o.ptype = "text" /\ o.text.isStr

\* is_triangle(o), for an o whose pathData is a record or absent
is_triangle(o) ==
  /\ o.pdKind = "dict"
  /\ o.ptype = "polygon"
  /\ (IF o.pointsKind = "list" THEN Len(o.points) ELSE 0) = 3

\* hex_to_rgb(h): the three bytes of "#RRGGBB", (0,0,0) when that fails
hex_to_rgb(h) ==
  IF h.ok
    THEN <<16 * h.d[1] + h.d[2], 16 * h.d[3] + h.d[4], 16 * h.d[5] + h.d[6]>>
    ELSE <<0, 0, 0>>

\* color_close called without its tol argument: the default of 100 applies
color_close_default_tol(hexcolor, target, tol) ==
  LET c == hex_to_rgb(hexcolor)
      dr == c[1] - target[1]
      dg == c[2] - target[2]
      db == c[3] - target[3]
  IN dr * dr + dg * dg + db * db <= 100 * 100

\* color_close(hexcolor, target_rgb, tol)
color_close(hexcolor, target, tol) ==
  LET c == hex_to_rgb(hexcolor)
      dr == c[1] - target[1]
      dg == c[2] - target[2]
      db == c[3] - target[3]
  IN dr * dr + dg * dg + db * db <= tol * tol

brown_rgb == <<139, 69, 19>>
green_rgb == <<34, 139, 34>>
\* the tol= argument of the trunk test and of the foliage test
TrunkTol == 120
FoliageTol == 120

is_freehand(o) == o.pdKind = "dict" /\ o.tool = "freehand"

\* the index of the first object the text loop accepts, 0 when there is none
FirstText(objs) ==
  IF \E i \in 1..Len(objs) : is_text(objs[i])
    THEN CHOOSE i \in 1..Len(objs) :
           is_text(objs[i]) /\ \A j \in 1..(i - 1) : ~is_text(objs[j])
    ELSE 0

\* the index of the first object whose pathData is no record (is_text raises
\* on it), 0 when there is none
FirstBadPath(objs) ==
  IF \E i \in 1..Len(objs) : objs[i].pdKind = "bad"
    THEN CHOOSE i \in 1..Len(objs) :
           objs[i].pdKind = "bad" /\ \A j \in 1..(i - 1) : objs[j].pdKind # "bad"
    ELSE 0

\* the label of the text rule: f"text: '{txt}'"
TextLabel(txt) == "text: '" \o txt \o "'"

\* LaterRules with the house rule tried before the car rule
LaterRulesHouseFirst(objs) ==
  LET circle_count == count_type(objs, "circle")
      rect_count == count_type(objs, "rectangle")
      poly_count == count_type(objs, "polygon")
      tri_count == Cardinality({i \in 1..Len(objs) : is_triangle(objs[i])})
  IN IF rect_count >= 1 /\ tri_count >= 1 THEN RuleHit("house", 90)
     ELSE IF rect_count + poly_count >= 1 /\ circle_count >= 2 THEN RuleHit("car", 90)
     ELSE None

\* the rules after the text loop, reached only when no pathData is malformed
LaterRules(objs) ==
  LET circle_count == count_type(objs, "circle")
      rect_count == count_type(objs, "rectangle")
      poly_count == count_type(objs, "polygon")
      tri_count == Cardinality({i \in 1..Len(objs) : is_triangle(objs[i])})
      trunk == \E i \in 1..Len(objs) :
                 is_freehand(objs[i]) /\ color_close(objs[i].color, brown_rgb, TrunkTol)
      foliage == \E i \in 1..Len(objs) :
                   is_freehand(objs[i]) /\ color_close(objs[i].color, green_rgb, FoliageTol)
  IN IF rect_count + poly_count >= 1 /\ circle_count >= 2 THEN RuleHit("car", 90)
     ELSE IF rect_count >= 1 /\ tri_count >= 1 THEN RuleHit("house", 90)
     ELSE IF trunk /\ foliage THEN RuleHit("tree", 88)
     ELSE None

\* _rule_based_recognize(canvas_objects, box): a hit, or None.  Any exception
\* inside (an element that is no record, a pathData that is no record) is
\* swallowed and gives None.
rule_based_recognize(objs) ==
  LET firstText == FirstText(objs)
      firstBad == FirstBadPath(objs)
  IN IF \E i \in 1..Len(objs) : ~objs[i].isDict THEN None
     ELSE IF count_type(objs, "circle") = 1 /\ Len(objs) = 1
       THEN RuleHit("circle", 95)
     ELSE IF firstText # 0 /\ (firstBad = 0 \/ firstText < firstBad)
       THEN RuleHit(TextLabel(objs[firstText].text.s), 98)
     ELSE IF firstBad # 0 THEN None
     ELSE LaterRules(objs)

\* ------------------------------------------------------- style mapper
\* A style text is a sequence of one-character strings.
\* str.lower(), one character
LowerChar(c) ==
  LET Upper == <<"A", "B", "C", "D", "E", "F", "G", "H", "I", "J", "K", "L", "M",
                 "N", "O", "P", "Q", "R", "S", "T", "U", "V", "W", "X", "Y", "Z">>
      LowerCase == <<"a", "b", "c", "d", "e", "f", "g", "h", "i", "j", "k", "l", "m",
                     "n", "o", "p", "q", "r", "s", "t", "u", "v", "w", "x", "y", "z">>
  IN IF \E i \in 1..26 : Upper[i] = c
       THEN LowerCase[CHOOSE i \in 1..26 : Upper[i] = c]
       ELSE c
Lower(s) == [i \in 1..Len(s) |-> LowerChar(s[i])]

\* kw in s, for strings
Contains(s, kw) ==
  \E i \in 0..(Len(s) - Len(kw)) : \A j \in 1..Len(kw) : s[i + j] = kw[j]

\* the keywords of the nine branches of _map_style_to_brush
Kw ==
  [watercolor |-> <<"w", "a", "t", "e", "r", "c", "o", "l", "o", "r">>,
   wash |-> <<"w", "a", "s", "h">>,
   vangogh |-> <<"v", "a", "n", " ", "g", "o", "g", "h">>,
   oil |-> <<"o", "i", "l">>,
   impasto |-> <<"i", "m", "p", "a", "s", "t", "o">>,
   neon |-> <<"n", "e", "o", "n">>,
   glow |-> <<"g", "l", "o", "w">>,
   chalk |-> <<"c", "h", "a", "l", "k">>,
   pastel |-> <<"p", "a", "s", "t", "e", "l">>,
   spray |-> <<"s", "p", "r", "a", "y">>,
   splatter |-> <<"s", "p", "l", "a", "t", "t", "e", "r">>,
   drip |-> <<"d", "r", "i", "p">>,
   scatter |-> <<"s", "c", "a", "t", "t", "e", "r">>,
   mixed |-> <<"m", "i", "x", "e", "d">>,
   stamp |-> <<"s", "t", "a", "m", "p">>,
   sticker |-> <<"s", "t", "i", "c", "k", "e", "r">>,
   collage |-> <<"c", "o", "l", "l", "a", "g", "e">>]

\* style_prompt is None (no one-character string equals "None")
NoStyle == <<"None">>
\* style_prompt or ""
StyleOrEmpty(style_prompt) == IF style_prompt = NoStyle THEN <<>> ELSE style_prompt

\* _map_style_to_brush with style_prompt.lower() in place of
\* (style_prompt or "").lower(): None raises AttributeError
map_style_to_brush_no_or(style_prompt) ==
  LET s == Lower(style_prompt)
  IN IF style_prompt = NoStyle THEN <<"raise", "AttributeError">>
     ELSE IF Contains(s, Kw.watercolor) \/ Contains(s, Kw.wash) THEN <<"spray", "watercolor">>
     ELSE IF Contains(s, Kw.vangogh) \/ Contains(s, Kw.oil) \/ Contains(s, Kw.impasto)
       THEN <<"mixed", "oil">>
     ELSE IF Contains(s, Kw.neon) \/ Contains(s, Kw.glow) THEN <<"neon", "neon">>
     ELSE IF Contains(s, Kw.chalk) \/ Contains(s, Kw.pastel) THEN <<"chalk", "chalk">>
     ELSE IF Contains(s, Kw.spray) \/ Contains(s, Kw.splatter) THEN <<"spray", "spray">>
     ELSE IF Contains(s, Kw.drip) THEN <<"drip", "drip">>
     ELSE IF Contains(s, Kw.scatter) THEN <<"scatter", "scatter">>
     ELSE IF Contains(s, Kw.mixed) THEN <<"mixed", "mixed">>
     ELSE IF Contains(s, Kw.stamp) \/ Contains(s, Kw.sticker) \/ Contains(s, Kw.collage)
       THEN <<"normal", "stamp">>
     ELSE <<"normal", "none">>

\* _map_style_to_brush with the spray/splatter branch tested before the
\* van gogh/oil/impasto branch
map_style_to_brush_spray_early(style_prompt) ==
  LET s == Lower(StyleOrEmpty(style_prompt))
  IN IF Contains(s, Kw.watercolor) \/ Contains(s, Kw.wash) THEN <<"spray", "watercolor">>
     ELSE IF Contains(s, Kw.spray) \/ Contains(s, Kw.splatter) THEN <<"spray", "spray">>
     ELSE IF Contains(s, Kw.vangogh) \/ Contains(s, Kw.oil) \/ Contains(s, Kw.impasto)
       THEN <<"mixed", "oil">>
     ELSE IF Contains(s, Kw.neon) \/ Contains(s, Kw.glow) THEN <<"neon", "neon">>
     ELSE IF Contains(s, Kw.chalk) \/ Contains(s, Kw.pastel) THEN <<"chalk", "chalk">>
     ELSE IF Contains(s, Kw.drip) THEN <<"drip", "drip">>
     ELSE IF Contains(s, Kw.scatter) THEN <<"scatter", "scatter">>
     ELSE IF Contains(s, Kw.mixed) THEN <<"mixed", "mixed">>
     ELSE IF Contains(s, Kw.stamp) \/ Contains(s, Kw.sticker) \/ Contains(s, Kw.collage)
       THEN <<"normal", "stamp">>
     ELSE <<"normal", "none">>

\* _map_style_to_brush(style_prompt): <<brush, params>>; params is the name of
\* the parameter record of the matching branch ("none" is {}).
map_style_to_brush(style_prompt) ==
  LET s == Lower(StyleOrEmpty(style_prompt))
  IN IF Contains(s, Kw.watercolor) \/ Contains(s, Kw.wash) THEN <<"spray", "watercolor">>
     ELSE IF Contains(s, Kw.vangogh) \/ Contains(s, Kw.oil) \/ Contains(s, Kw.impasto)
       THEN <<"mixed", "oil">>
     ELSE IF Contains(s, Kw.neon) \/ Contains(s, Kw.glow) THEN <<"neon", "neon">>
     ELSE IF Contains(s, Kw.chalk) \/ Contains(s, Kw.pastel) THEN <<"chalk", "chalk">>
     ELSE IF Contains(s, Kw.spray) \/ Contains(s, Kw.splatter) THEN <<"spray", "spray">>
     ELSE IF Contains(s, Kw.drip) THEN <<"drip", "drip">>
     ELSE IF Contains(s, Kw.scatter) THEN <<"scatter", "scatter">>
     ELSE IF Contains(s, Kw.mixed) THEN <<"mixed", "mixed">>
     ELSE IF Contains(s, Kw.stamp) \/ Contains(s, Kw.sticker) \/ Contains(s, Kw.collage)
       THEN <<"normal", "stamp">>
     ELSE <<"normal", "none">>

\* params.get("mixColors", []) of a named parameter record
MixColors(params) ==
  IF params = "oil"
    THEN <<Hex(<<15, 15, 12, 12, 3, 3>>), Hex(<<15, 15, 9, 9, 0, 0>>),
           Hex(<<15, 15, 15, 15, 6, 6>>)>>
    ELSE IF params = "mixed"
      THEN <<Hex(<<15, 15, 15, 15, 15, 15>>), Black>>
      ELSE <<>>

\* the test of the overlay pass: the style text is in the oil/impasto class
IsOilClass(style_prompt) ==
  LET s == Lower(StyleOrEmpty(style_prompt))
  IN Contains(s, Kw.vangogh) \/ Contains(s, Kw.oil) \/ Contains(s, Kw.impasto)

\* ------------------------------------------------- style post-processing
NoBox ==
  [ok |-> FALSE, min_x |-> Num(0), max_x |-> Num(0), min_y |-> Num(0),
   max_y |-> Num(0)]

Min(a, b) == IF a <= b THEN a ELSE b
Max(a, b) == IF a >= b THEN a ELSE b

\* float(d.get(key, 0)) for a value float() accepts
FloatOf(c) == IF c.k = "absent" THEN Num(0) ELSE c
\* a < b on floats: every comparison with NaN is False
Lt(a, b) == a.k = "num" /\ b.k = "num" /\ a.v < b.v

RECURSIVE FoldMin(_, _)
RECURSIVE FoldMax(_, _)
\* min(xs), max(xs): the first element, replaced by each later one that
\* compares smaller (larger)
FoldMin(m, rest) ==
  IF rest = <<>> THEN m
  ELSE FoldMin(IF Lt(Head(rest), m) THEN Head(rest) ELSE m, Tail(rest))
FoldMax(m, rest) ==
  IF rest = <<>> THEN m
  ELSE FoldMax(IF Lt(m, Head(rest)) THEN Head(rest) ELSE m, Tail(rest))

RECURSIVE PointXs(_)
RECURSIVE PointYs(_)
\* the xs of the points loop: an entry that is no record, or whose x float()
\* rejects, raises before xs.append and adds nothing
PointXs(pts) ==
  IF pts = <<>> THEN <<>>
  ELSE (IF Head(pts).ok /\ Head(pts).x.k # "bad"
          THEN <<FloatOf(Head(pts).x)>> ELSE <<>>) \o PointXs(Tail(pts))
\* the ys of the points loop: ys.append is reached once xs.append was done
PointYs(pts) ==
  IF pts = <<>> THEN <<>>
  ELSE (IF Head(pts).ok /\ Head(pts).x.k # "bad" /\ Head(pts).y.k # "bad"
          THEN <<FloatOf(Head(pts).y)>> ELSE <<>>) \o PointYs(Tail(pts))

\* _bbox_from_path(obj.get("pathData", {})): the box, or NoBox for None
bbox_from_path(o) ==
  LET pair == o.start.ok /\ o.end.ok
      xs == IF o.pointsKind = "list" THEN PointXs(o.points)
            ELSE IF pair /\ o.start.x.k # "bad" /\ o.end.x.k # "bad"
              THEN <<FloatOf(o.start.x), FloatOf(o.end.x)>> ELSE <<>>
      ys == IF o.pointsKind = "list" THEN PointYs(o.points)
            ELSE IF pair /\ o.start.x.k # "bad" /\ o.end.x.k # "bad"
                      /\ o.start.y.k # "bad" /\ o.end.y.k # "bad"
              THEN <<FloatOf(o.start.y), FloatOf(o.end.y)>> ELSE <<>>
  IN IF o.pdKind # "dict" THEN NoBox
     ELSE IF xs = <<>> \/ ys = <<>> THEN NoBox
     ELSE [ok |-> TRUE,
           min_x |-> FoldMin(Head(xs), Tail(xs)), max_x |-> FoldMax(Head(xs), Tail(xs)),
           min_y |-> FoldMin(Head(ys), Tail(ys)), max_y |-> FoldMax(Head(ys), Tail(ys))]

\* the rel_points of the two overlay strokes, in hundredths
RelPoints1 == <<<<-30, -20>>, <<-10, -25>>, <<10, -15>>>>
RelPoints2 == <<<<-40, 10>>, <<0, 15>>, <<35, 5>>>>
\* lw_mult of the two overlay strokes, in tenths
LwMult1 == 10
LwMult2 == 13

\* max(2, int(obj.get("lineWidth", 2) * lw_mult)), lw_mult in tenths
\* overlay_line_width with round() in place of int(): to the nearest whole
\* number
overlay_line_width_rounded(w, mult) == Max(2, (w * mult + 5) \div 10)

overlay_line_width(w, mult) == Max(2, (w * mult) \div 10)

\* make_stroke(rel_points, lw_mult) inside _create_impasto_overlays; the
\* points are cx + rx * width + offs, kept in units of 1/200 of the source's
make_stroke(obj, bbox, default_params, idx, rel, mult) ==
  LET mix == MixColors(obj.meta.brushParams)
      width == bbox.max_x.v - bbox.min_x.v
      height == bbox.max_y.v - bbox.min_y.v
      offs == ((idx % 3) - 1) * 4
      \* arithmetic on a NaN bound gives NaN
      nanx == bbox.min_x.k = "nan" \/ bbox.max_x.k = "nan"
      nany == bbox.min_y.k = "nan" \/ bbox.max_y.k = "nan"
  IN [BaseObj EXCEPT
        !.ptype = "stroke", !.tool = "freehand",
        !.color = IF mix # <<>> THEN mix[1] ELSE obj.color,
        !.lw = [num |-> TRUE, v |-> overlay_line_width(obj.lw.v, mult)],
        !.pointsKind = "list",
        !.points = [k \in 1..Len(rel) |->
                      PtOf(IF nanx THEN NaNCoord
                           ELSE Num(100 * (bbox.min_x.v + bbox.max_x.v)
                                      + 2 * rel[k][1] * width + 200 * offs),
                           IF nany THEN NaNCoord
                           ELSE Num(100 * (bbox.min_y.v + bbox.max_y.v)
                                      + 2 * rel[k][2] * height + 200 * offs))],
        !.scale = 200 * obj.scale,
        !.meta = Meta("stroke", "wacky", default_params)]

\* _create_impasto_overlays with stroke2 never appended
create_impasto_overlays_single(obj, bbox, default_params, idx) ==
  IF ~obj.lw.num
    THEN [raise |-> TRUE, objs |-> <<>>]
    ELSE [raise |-> FALSE,
          objs |-> <<make_stroke(obj, bbox, default_params, idx, RelPoints1, LwMult1)>>]

\* _create_impasto_overlays(obj, bbox, default_params, idx): the two overlay
\* strokes; a lineWidth that is no number makes the product raise
create_impasto_overlays(obj, bbox, default_params, idx) ==
  IF ~obj.lw.num
    THEN [raise |-> TRUE, objs |-> <<>>]
    ELSE [raise |-> FALSE,
          objs |-> <<make_stroke(obj, bbox, default_params, idx, RelPoints1, LwMult1),
                     make_stroke(obj, bbox, default_params, idx, RelPoints2, LwMult2)>>]

\* meta = obj.get("metadata", {}) or {}: a falsy value gives a fresh {}
MetaOrEmpty(o) == IF o.meta.ty = "dict" THEN o.meta ELSE Meta("", "", "")

\* with_default_metadata with meta["brushType"] = default_brush in place of
\* the setdefault call
with_default_metadata_overwrite(o, default_brush, default_params) ==
  LET m == MetaOrEmpty(o)
  IN IF o.image
       THEN [o EXCEPT !.meta =
               [m EXCEPT !.drawingType = IF m.drawingType = "" THEN "image" ELSE @,
                         !.stampData = IF m.stampData = "" THEN "derived" ELSE @]]
       ELSE [o EXCEPT !.meta =
               [m EXCEPT !.drawingType = IF m.drawingType = "" THEN "stroke" ELSE @,
                         !.brushType = default_brush,
                         !.brushParams = IF m.brushParams = "" THEN default_params ELSE @]]

\* with_default_metadata without meta.setdefault("drawingType", "image") in
\* the image branch
with_default_metadata_image_untyped(o, default_brush, default_params) ==
  LET m == MetaOrEmpty(o)
  IN IF o.image
       THEN [o EXCEPT !.meta =
               [m EXCEPT !.stampData = IF m.stampData = "" THEN "derived" ELSE @]]
       ELSE [o EXCEPT !.meta =
               [m EXCEPT !.drawingType = IF m.drawingType = "" THEN "stroke" ELSE @,
                         !.brushType = IF m.brushType = "" THEN default_brush ELSE @,
                         !.brushParams = IF m.brushParams = "" THEN default_params ELSE @]]

\* the body of the first loop of _postprocess_style_objects for one record
\* object: the setdefault calls and obj["metadata"] = meta
with_default_metadata(o, default_brush, default_params) ==
  LET m == MetaOrEmpty(o)
  IN IF o.image
       THEN [o EXCEPT !.meta =
               [m EXCEPT !.drawingType = IF m.drawingType = "" THEN "image" ELSE @,
                         !.stampData = IF m.stampData = "" THEN "derived" ELSE @]]
       ELSE [o EXCEPT !.meta =
               [m EXCEPT !.drawingType = IF m.drawingType = "" THEN "stroke" ELSE @,
                         !.brushType = IF m.brushType = "" THEN default_brush ELSE @,
                         !.brushParams = IF m.brushParams = "" THEN default_params ELSE @]]

\* a metadata value that is truthy and no record: meta.setdefault raises
MetaRaises(o) == o.isDict /\ o.meta.ty \notin {"absent", "dict", "null"}

\* the first loop: every object with its metadata defaulted
ProcessedObjects(objects, default_brush, default_params) ==
  [i \in 1..Len(objects) |->
     IF objects[i].isDict
       THEN with_default_metadata(objects[i], default_brush, default_params)
       ELSE objects[i]]

\* had_explicit_metadata after the first loop
HadExplicitMetadata(objects, processed) ==
  \E i \in 1..Len(objects) :
    /\ objects[i].isDict
    /\ objects[i].meta.ty # "absent"
    /\ processed[i].meta.brushType # ""

\* does the overlay loop reach _create_impasto_overlays for element i (1-based)
GetsOverlay(processed, i) ==
  /\ processed[i].isDict
  /\ processed[i].meta.drawingType # "image"
  /\ bbox_from_path(processed[i]).ok

RECURSIVE OverlaysFrom(_, _, _)
\* the overlay loop from element i on: [raise, objs]
OverlaysFrom(processed, default_params, i) ==
  IF i > Len(processed) THEN [raise |-> FALSE, objs |-> <<>>]
  ELSE LET rest == OverlaysFrom(processed, default_params, i + 1)
           here == IF GetsOverlay(processed, i)
                     THEN create_impasto_overlays(processed[i], bbox_from_path(processed[i]),
                                                  default_params, i - 1)
                     ELSE [raise |-> FALSE, objs |-> <<>>]
       IN [raise |-> here.raise \/ rest.raise, objs |-> here.objs \o rest.objs]

\* _postprocess_style_objects(objects, style_prompt) for the value of the
\* reply's "objects": [raise, val]
postprocess_style_objects(objects, style_prompt) ==
  IF objects.ty # "list" THEN [raise |-> FALSE, val |-> objects]
  ELSE LET d == map_style_to_brush(style_prompt)
           processed == ProcessedObjects(objects.items, d[1], d[2])
           overlays == OverlaysFrom(processed, d[2], 1)
       IN IF \E i \in 1..Len(objects.items) : MetaRaises(objects.items[i])
            THEN [raise |-> TRUE, val |-> objects]
          ELSE IF IsOilClass(style_prompt) /\ ~HadExplicitMetadata(objects.items, processed)
            THEN IF overlays.raise
                   THEN [raise |-> TRUE, val |-> objects]
                   ELSE [raise |-> FALSE, val |-> L(processed \o overlays.objs)]
          ELSE [raise |-> FALSE, val |-> L(processed)]

\* ------------------------------------------------------------ backends
\* What a backend call comes to: the client raises ("exception"), the reply
\* text is no JSON ("unparsable"), the key is not configured ("nokey", the
\* Primary only), or the reply text parses to val ("parsed").
Failed(kind) == [kind |-> kind, val |-> NoReply]
Parsed(r) == [kind |-> "parsed", val |-> r]

\* openai_prompt_to_json
openai_prompt_to_json(o) ==
  IF o.kind = "nokey" THEN ErrorPayload("openai_not_configured", o.kind)
  ELSE IF o.kind = "parsed" THEN o.val
  ELSE ErrorPayload("openai_failed", o.kind)
\* ollama_prompt_to_json
ollama_prompt_to_json(o) ==
  IF o.kind = "parsed" THEN o.val ELSE ErrorPayload("ollama_failed", o.kind)
\* openai_complete_shape
openai_complete_shape(o) ==
  IF o.kind = "parsed" THEN o.val ELSE ErrorPayload("openai_completion_failed", o.kind)
\* ollama_complete_shape
ollama_complete_shape(o) ==
  IF o.kind = "parsed" THEN o.val ELSE ErrorPayload("ollama_completion_failed", o.kind)
\* openai_beautify_canvas
openai_beautify_canvas(o) ==
  IF o.kind = "parsed" THEN o.val ELSE ErrorPayload("openai_beautify_failed", o.kind)
\* ollama_beautify_canvas: the only wrapper that checks the parsed reply
ollama_beautify_canvas(o) ==
  IF o.kind # "parsed" THEN ErrorPayload("ollama_beautify_failed", o.kind)
  ELSE IF o.val.ty # "dict" \/ "objects" \notin o.val.has
    THEN ErrorPayload("ollama_beautify_invalid_output", "missing objects")
  ELSE IF o.val.objects.ty # "list"
    THEN ErrorPayload("ollama_beautify_invalid_output", "objects is not a list")
  ELSE o.val
\* openai_style_transfer
openai_style_transfer(o) ==
  IF o.kind = "parsed" THEN o.val ELSE ErrorPayload("openai_style_failed", o.kind)
\* ollama_style_transfer
ollama_style_transfer(o) ==
  IF o.kind = "parsed" THEN o.val ELSE ErrorPayload("ollama_style_failed", o.kind)
\* openai_recognize_objects
openai_recognize_objects(o) ==
  IF o.kind = "parsed" THEN o.val ELSE ErrorPayload("openai_recognition_failed", o.kind)
\* ollama_recognize_objects
ollama_recognize_objects(o) ==
  IF o.kind = "parsed" THEN o.val ELSE ErrorPayload("ollama_recognition_failed", o.kind)

\* the Primary wrapper of a mode
PrimaryBackend(m, o) ==
  CASE m = "synthesize" -> openai_prompt_to_json(o)
    [] m = "complete" -> openai_complete_shape(o)
    [] m = "beautify" -> openai_beautify_canvas(o)
    [] m = "style" -> openai_style_transfer(o)
    [] m = "recognize" -> openai_recognize_objects(o)
\* the Secondary wrapper of a mode
SecondaryBackend(m, o) ==
  CASE m = "synthesize" -> ollama_prompt_to_json(o)
    [] m = "complete" -> ollama_complete_shape(o)
    [] m = "beautify" -> ollama_beautify_canvas(o)
    [] m = "style" -> ollama_style_transfer(o)
    [] m = "recognize" -> ollama_recognize_objects(o)

\* ------------------------------------------------------------ pipelines
NoResult == [kind |-> "none", val |-> NoReply]
Return(v) == [kind |-> "return", val |-> v]
Raised == [kind |-> "raise", val |-> NoReply]

\* what a pipeline does once a backend wrapper has returned: return a result
\* (next = "done") or go on to the Secondary (next = "secondary")
Done(res) == [next |-> "done", result |-> res]
Fallback == [next |-> "secondary", result |-> NoResult]

\* canvas_state.get("objects", [])
canvas_objects_or_empty(canvas) ==
  IF canvas.hasObjects THEN canvas.objects ELSE <<>>

\* {"objects": original}: the rollback value of beautify and style
Rollback(canvas) ==
  WithKeys([EmptyDict EXCEPT !.objects = L(canvas_objects_or_empty(canvas))])

\* prompt_to_drawings_primary without the early return: the fallback is
\* always called
prompt_to_drawings_primary_no_return(model_output) == Fallback

\* prompt_to_drawings after openai_prompt_to_json has returned
prompt_to_drawings_primary(model_output) ==
  IF "error" \notin model_output.has THEN Done(Return(model_output)) ELSE Fallback
\* prompt_to_drawings_fallback with a failure wrapped in an error of the
\* pipeline's own, without the wrapper's detail
prompt_to_drawings_fallback_generic(fallback_model_output) ==
  IF "error" \in fallback_model_output.has
    THEN Return(ErrorPayload("both_backends_failed", ""))
    ELSE Return(fallback_model_output)

\* prompt_to_drawings after ollama_prompt_to_json has returned
prompt_to_drawings_fallback(fallback_model_output) == Return(fallback_model_output)

\* complete_shape_from_canvas after openai_complete_shape has returned
complete_shape_primary(model_output) ==
  IF "error" \notin model_output.has THEN Done(Return(model_output)) ELSE Fallback
\* complete_shape_from_canvas after ollama_complete_shape has returned
complete_shape_fallback(fallback_output) == Return(fallback_output)

\* beautify_primary that looks for "objects" only
beautify_primary_objects_only(model_output) ==
  IF "objects" \in model_output.has THEN Done(Return(model_output)) ELSE Fallback

\* beautify_canvas_state after openai_beautify_canvas has returned
beautify_primary(model_output) ==
  IF "error" \notin model_output.has /\ "objects" \in model_output.has
    THEN Done(Return(model_output))
    ELSE Fallback
\* beautify_canvas_state after ollama_beautify_canvas has returned
beautify_fallback(fallback_output, canvas) ==
  IF "error" \notin fallback_output.has /\ "objects" \in fallback_output.has
    THEN Return(fallback_output)
    ELSE Return(Rollback(canvas))

\* model_output["objects"] = _postprocess_style_objects(...); return model_output
StyleAccepted(model_output, style_prompt) ==
  LET pp == postprocess_style_objects(model_output.objects, style_prompt)
  IN IF pp.raise THEN Raised ELSE Return([model_output EXCEPT !.objects = pp.val])

\* style_transfer_canvas after openai_style_transfer has returned
style_transfer_primary(model_output, style_prompt) ==
  IF /\ model_output.ty = "dict"
     /\ "error" \notin model_output.has
     /\ "objects" \in model_output.has
    THEN Done(StyleAccepted(model_output, style_prompt))
    ELSE Fallback
\* style_transfer_canvas after ollama_style_transfer has returned
style_transfer_fallback(fallback_output, style_prompt, canvas) ==
  IF /\ fallback_output.ty = "dict"
     /\ "error" \notin fallback_output.has
     /\ "objects" \in fallback_output.has
    THEN StyleAccepted(fallback_output, style_prompt)
    ELSE Return(Rollback(canvas))

\* recognize_objects_in_box after openai_recognize_objects has returned
recognize_primary(model_output) ==
  IF model_output.ty = "dict" /\ "error" \notin model_output.has
    THEN Done(Return(model_output))
    ELSE Fallback
\* recognize_objects_in_box after ollama_recognize_objects has returned
recognize_fallback(fallback_output) == Return(fallback_output)

\* recognize_fast_path with the rule-based result dropped
recognize_fast_path_dropped(canvas_objects) ==
  [next |-> "primary", result |-> NoResult]

\* recognize_objects_in_box before any backend call: the rule-based result is
\* returned when it is a record
recognize_fast_path(canvas_objects) ==
  LET rule_out == rule_based_recognize(canvas_objects)
  IN IF rule_out.ty = "dict"
       THEN [next |-> "done", result |-> Return(rule_out)]
       ELSE [next |-> "primary", result |-> NoResult]

\* written_canvas_state with the rollback value post-processed like a reply:
\* the first loop of _postprocess_style_objects writes obj["metadata"] on the
\* caller's own objects
written_canvas_state_rollback_styled(m, r, style_prompt, canvas) ==
  LET d == map_style_to_brush(style_prompt)
  IN IF m = "style" /\ ("error" \in r.has \/ "objects" \notin r.has)
       THEN [canvas EXCEPT !.objects = ProcessedObjects(canvas.objects, d[1], d[2])]
       ELSE canvas

\* what the caller's canvas_state holds once a pipeline has judged the reply
\* r.  Every write of a pipeline goes to the reply (model_output["objects"]
\* = ..., and obj["metadata"] = meta on the reply's own elements);
\* canvas_state is only read (json.dumps, .get), in every mode
written_canvas_state(m, r, style_prompt, canvas) == canvas

AfterPrimary(m, r, style_prompt) ==
  CASE m = "synthesize" -> prompt_to_drawings_primary(r)
    [] m = "complete" -> complete_shape_primary(r)
    [] m = "beautify" -> beautify_primary(r)
    [] m = "style" -> style_transfer_primary(r, style_prompt)
    [] m = "recognize" -> recognize_primary(r)
AfterFallback(m, r, style_prompt, canvas) ==
  CASE m = "synthesize" -> prompt_to_drawings_fallback(r)
    [] m = "complete" -> complete_shape_fallback(r)
    [] m = "beautify" -> beautify_fallback(r, canvas)
    [] m = "style" -> style_transfer_fallback(r, style_prompt, canvas)
    [] m = "recognize" -> recognize_fallback(r)

\* ------------------------------------------------------ inputs, replies
\* one-character strings of the style texts the model draws from
OilText == <<"V", "a", "n", " ", "G", "o", "g", "h", " ", "O", "I", "L">>
NeonText == <<"n", "e", "o", "n">>
StyleTexts == {OilText, NeonText}

PlainStroke == Stroke(Red)
StyledStroke == [Stroke(Red) EXCEPT !.meta = Meta("stroke", "neon", "custom")]
StrMetaStroke == [Stroke(Red) EXCEPT !.meta = BadMeta("str")]
TextWidthStroke == [Stroke(Red) EXCEPT !.lw = [num |-> FALSE, v |-> 0]]

\* elements of the "objects" list of a backend reply
ReplyObjs == {PlainStroke, StyledStroke, StrMetaStroke, TextWidthStroke, NonDictObj}
\* elements of canvasState.objects and of a selection
CanvasObjs == {Circle(Black), Stroke(Red), TextObj("Hi")}

Canvases ==
  {[hasObjects |-> TRUE, objects |-> os] : os \in SeqsUpTo(CanvasObjs, MaxCanvas)}
    \cup {[hasObjects |-> FALSE, objects |-> <<>>]}

\* the values a reply can hold under "objects"
ObjectsValues ==
  {Absent, V("str"), V("dict")} \cup {L(os) : os \in SeqsUpTo(ReplyObjs, MaxItems)}

\* the JSON records a backend can reply with, by mode: the keys the mode's
\* schema names, each absent, well typed or wrongly typed, with or without
\* an "error" key
DictReplies(m) ==
  IF m \in {"synthesize", "beautify", "style"}
    THEN {WithKeys([EmptyDict EXCEPT !.err = e, !.objects = ov]) :
            e \in {"", "model_error"}, ov \in ObjectsValues}
  ELSE IF m = "complete"
    THEN {WithKeys([EmptyDict EXCEPT !.err = e, !.object = a, !.complete = b,
                                     !.confidence = c]) :
            e \in {"", "model_error"},
            a \in {Absent, V("dict"), V("str")},
            b \in {Absent, V("bool"), V("str")},
            c \in {Absent, N(80), V("str")}}
  ELSE {WithKeys([EmptyDict EXCEPT !.err = e, !.label = a, !.confidence = c]) :
          e \in {"", "model_error"},
          a \in {Absent, S("cat"), N(7)},
          c \in {Absent, N(80), V("str")}}

\* JSON values that are no record
NonDictReplies == {NonDict("list"), NonDict("str"), NonDict("num"), NonDict("null")}

\* The Primary is called with response_format json_object: a reply that
\* parses is a JSON record.  The Secondary has no such constraint.
PrimaryOutcomes(m) ==
  {Failed("nokey"), Failed("exception"), Failed("unparsable")}
    \cup {Parsed(r) : r \in DictReplies(m)}
SecondaryOutcomes(m) ==
  {Failed("exception"), Failed("unparsable")}
    \cup {Parsed(r) : r \in DictReplies(m) \cup NonDictReplies}

\* ------------------------------------------------------- state machine
VARIABLES
  mode,       \* the pipeline being run, or the function called on its own
  canvas,     \* canvasState (for recognize: the selected canvas_objects)
  style,      \* style_prompt (style mode)
  pc,         \* "fast", "primary", "primary_wait", "secondary",
              \* "secondary_wait", "done"; "call", "returned" for a function
  primReply,  \* what the Primary wrapper returned
  secReply,   \* what the Secondary wrapper returned
  result,     \* what the pipeline returned or raised
  primCalls,  \* calls made to the Primary backend
  secCalls,   \* calls made to the Secondary backend
  trace,      \* the steps taken, in order
  arg,        \* the argument of a function called on its own
  ret,        \* what that function returned or raised
  other       \* a second pipeline call running at the same time: its own
              \* mode, canvas, style, pc, primReply, secReply and result

vars == <<mode, canvas, style, pc, primReply, secReply, result, primCalls,
          secCalls, trace, arg, ret, other>>

\* no function is called on its own; a called function has not returned
NoCall == [kind |-> "none"]

InitCall(m, c, st) ==
  /\ mode = m
  /\ canvas = c
  /\ style = st
  /\ pc = IF m = "recognize" THEN "fast" ELSE "primary"
  /\ primReply = NoReply
  /\ secReply = NoReply
  /\ result = NoResult
  /\ primCalls = 0
  /\ secCalls = 0
  /\ trace = <<>>
  /\ arg = NoCall
  /\ ret = NoCall
  /\ other = NoCall

Init ==
  \E m \in Modes, c \in Canvases, st \in StyleTexts :
    /\ m = "recognize" => c.hasObjects
    /\ m # "style" => st = OilText
    /\ InitCall(m, c, st)

\* recognize_objects_in_box, up to its first backend call
FastPath ==
  /\ pc = "fast"
  /\ LET f == recognize_fast_path(canvas.objects)
     IN /\ pc' = f.next
        /\ result' = f.result
  /\ trace' = Append(trace, "rule")
  /\ UNCHANGED <<mode, canvas, style, primReply, secReply, primCalls, secCalls, arg, ret, other>>

\* the pipeline calls its Primary wrapper
PrimaryCall ==
  /\ pc = "primary"
  /\ pc' = "primary_wait"
  /\ primCalls' = primCalls + 1
  /\ trace' = Append(trace, "primary_call")
  /\ UNCHANGED <<mode, canvas, style, primReply, secReply, result, secCalls, arg, ret, other>>

\* the Primary wrapper returns and the pipeline judges what it returned
PrimaryReturn ==
  /\ pc = "primary_wait"
  /\ \E o \in PrimaryOutcomes(mode) :
       LET r == PrimaryBackend(mode, o)
           a == AfterPrimary(mode, r, style)
       IN /\ primReply' = r
          /\ pc' = a.next
          /\ result' = a.result
          /\ canvas' = written_canvas_state(mode, r, style, canvas)
  /\ trace' = Append(trace, "primary_return")
  /\ UNCHANGED <<mode, style, secReply, primCalls, secCalls, arg, ret, other>>

\* the pipeline calls its Secondary wrapper
SecondaryCall ==
  /\ pc = "secondary"
  /\ pc' = "secondary_wait"
  /\ secCalls' = secCalls + 1
  /\ trace' = Append(trace, "secondary_call")
  /\ UNCHANGED <<mode, canvas, style, primReply, secReply, result, primCalls, arg, ret, other>>

\* SecondaryReturn with a retry: a Secondary reply that holds an "error" key
\* sends the pipeline back to call the Secondary again
SecondaryReturnRetry ==
  /\ pc = "secondary_wait"
  /\ \E o \in SecondaryOutcomes(mode) :
       LET r == SecondaryBackend(mode, o)
       IN /\ secReply' = r
          /\ result' = IF "error" \in r.has THEN NoResult
                                           ELSE AfterFallback(mode, r, style, canvas)
          /\ pc' = IF "error" \in r.has THEN "secondary" ELSE "done"
  /\ trace' = Append(trace, "secondary_return")
  /\ UNCHANGED <<mode, canvas, style, primReply, primCalls, secCalls, arg, ret, other>>

\* the Secondary wrapper returns and the pipeline returns
SecondaryReturn ==
  /\ pc = "secondary_wait"
  /\ \E o \in SecondaryOutcomes(mode) :
       LET r == SecondaryBackend(mode, o)
       IN /\ secReply' = r
          /\ result' = AfterFallback(mode, r, style, canvas)
          /\ canvas' = written_canvas_state(mode, r, style, canvas)
  /\ pc' = "done"
  /\ trace' = Append(trace, "secondary_return")
  /\ UNCHANGED <<mode, style, primReply, primCalls, secCalls, arg, ret, other>>

Next == FastPath \/ PrimaryCall \/ PrimaryReturn \/ SecondaryCall \/ SecondaryReturn

Spec == Init /\ [][Next]_vars

\* a pipeline is straight-line code and every backend call comes back with
\* an outcome (a reply or an exception): a step that can be taken is taken
SpecLive == Spec /\ WF_vars(Next)

\* ------------------------------------------------------------- messages
\* the worked examples (a user message and its assistant answer) a mode's
\* message builder puts between the instruction and the request
FewShotPairs(m) ==
  CASE m = "synthesize" -> 3
    [] m = "complete" -> 3
    [] m = "beautify" -> 2
    [] m = "style" -> 1
    [] m = "recognize" -> 0

\* the message list a mode's builder returns: the system prompt, the worked
\* examples, and a user message made of json.dumps of the canvas data and,
\* in synthesize, style and recognize, the prompt, style text or box
initial_message(m, c, intent) ==
  <<[role |-> "system", kind |-> "instruction", of |-> m]>>
    \o [i \in 1..(2 * FewShotPairs(m)) |->
          [role |-> IF i % 2 = 1 THEN "user" ELSE "assistant",
           kind |-> "example", of |-> m, n |-> (i + 1) \div 2]]
    \o <<[role |-> "user", kind |-> "request", canvas |-> c,
          intent |-> IF m \in {"complete", "beautify"} THEN <<>> ELSE intent]>>

\* messages= of the Primary wrapper's chat call and of the Secondary's
primary_messages(m, c, intent) == initial_message(m, c, intent)
secondary_messages(m, c, intent) == initial_message(m, c, intent)

\* ------------------------------------------------------- image endpoint
\* what the handler hands back: a (body, status) pair, or nothing when it
\* runs off its end (Python's None)
Response(status, body, generated) ==
  [status |-> status, body |-> body, generated |-> generated]
NoResponse == Response(0, "none", FALSE)

\* the view function of POST /api/ai_assistant/image.  body is what
\* request.get_json(silent=True) gave, gen what the image generator would
\* do if called.  The statements after the 400 return (the generator call
\* and the 502 and 200 returns) are indented under that return's "if", so no
\* run reaches them: with a usable prompt the function ends without a return
text_to_image(body, gen) ==
  IF body.ty \notin {"dict", "null"}
    THEN Response(500, "server_error", FALSE)
    ELSE LET prompt == IF body.ty = "dict" /\ body.prompt.ty # "absent"
                         THEN body.prompt
                         ELSE [ty |-> "str", text |-> <<>>]
         IN IF prompt.ty # "str" \/ \A i \in 1..Len(prompt.text) : prompt.text[i] = " "
              THEN Response(400, "bad_request", FALSE)
              ELSE NoResponse

\* ---------------------------------------------------- two calls at once
\* style_prompt_read with style_prompt kept in a module-level name that the
\* latest caller assigns
style_prompt_read_global(own, latest) == latest

\* the style_prompt the post-processing of a call reads: the parameter of its
\* own style_transfer_canvas frame.  No pipeline assigns a module-level name;
\* the module's globals are the prompt texts and worked examples, only read
style_prompt_read(own, latest) == own

\* what the backends answer the second call: an exception, or a record with
\* or without "error" and with or without "objects"
TwoCallOutcomes ==
  {Failed("exception")}
    \cup {Parsed(WithKeys([EmptyDict EXCEPT !.err = e, !.objects = ov])) :
            e \in {"", "model_error"}, ov \in {Absent, L(<<PlainStroke>>)}}

\* a recognize call and, at the same time, a second call in any mode
InitTwo ==
  /\ \E c \in {<<Circle(Black)>>, <<Stroke(Red)>>} :
       /\ mode = "recognize"
       /\ canvas = [hasObjects |-> TRUE, objects |-> c]
  /\ style = OilText
  /\ pc = "fast"
  /\ primReply = NoReply
  /\ secReply = NoReply
  /\ result = NoResult
  /\ primCalls = 0
  /\ secCalls = 0
  /\ trace = <<>>
  /\ arg = NoCall
  /\ ret = NoCall
  /\ \E m \in Modes, c \in {<<Circle(Black)>>, <<Stroke(Red)>>}, st \in StyleTexts :
       /\ m # "recognize" => c = <<Stroke(Red)>>
       /\ m # "style" => st = NeonText
       /\ other = [mode |-> m, canvas |-> [hasObjects |-> TRUE, objects |-> c],
                   style |-> st, pc |-> IF m = "recognize" THEN "fast" ELSE "primary",
                   primReply |-> NoReply, secReply |-> NoReply, result |-> NoResult]

\* one step of the second call: the same pipeline code, run on its own
\* arguments and locals
OtherStep ==
  /\ \/ /\ other.pc = "fast"
        /\ LET f == recognize_fast_path(other.canvas.objects)
           IN other' = [other EXCEPT !.pc = f.next, !.result = f.result]
     \/ /\ other.pc = "primary"
        /\ other' = [other EXCEPT !.pc = "primary_wait"]
     \/ /\ other.pc = "primary_wait"
        /\ \E o \in TwoCallOutcomes :
             LET r == PrimaryBackend(other.mode, o)
                 a == AfterPrimary(other.mode, r, style_prompt_read(other.style, style))
             IN other' = [other EXCEPT !.primReply = r, !.pc = a.next,
                                       !.result = a.result]
     \/ /\ other.pc = "secondary"
        /\ other' = [other EXCEPT !.pc = "secondary_wait"]
     \/ /\ other.pc = "secondary_wait"
        /\ \E o \in TwoCallOutcomes :
             LET r == SecondaryBackend(other.mode, o)
                 sp == style_prompt_read(other.style, style)
             IN other' = [other EXCEPT
                            !.secReply = r, !.pc = "done",
                            !.result = AfterFallback(other.mode, r, sp, other.canvas)]
  /\ UNCHANGED <<mode, canvas, style, pc, primReply, secReply, result, primCalls,
                 secCalls, trace, arg, ret>>

SpecTwo == InitTwo /\ [][Next \/ OtherStep]_vars

\* ------------------------------------- the rule-based recogniser alone
\* the objects a selection is drawn from when the recogniser is checked
\* alone; among them a triangle, a text object whose text is no string, and
\* strokes of colour #F94513 (brown with 110 more red), #8B458B (brown with
\* 120 more blue) and #56681A (half way between brown and green)
SelectionObjs ==
  {Circle(Black), TextObj("Hi"), TextObj("Yo"), Rect(Black), Poly(3, Black),
   Stroke(Brown), Stroke(Green), Stroke(Hex(<<15, 9, 4, 5, 1, 3>>)),
   Stroke(Hex(<<8, 11, 4, 5, 8, 11>>)), Stroke(Hex(<<5, 6, 6, 8, 1, 10>>)),
   Shape("text", Black), BadPathObj}

InitRecognize ==
  \E os \in SeqsUpTo(SelectionObjs, MaxSel) :
    InitCall("recognize", [hasObjects |-> TRUE, objects |-> os], OilText)

\* recognize_objects_in_box up to its first backend call, over every selection
SpecRecognize == InitRecognize /\ [][FastPath]_vars

\* ------------------------------------------- functions called on their own
\* most words of a style text in the style mapper's specification
MaxWords == 2

\* a function of the module called with argument a, nothing else running
InitFn(f, a) ==
  /\ mode = f
  /\ canvas = [hasObjects |-> FALSE, objects |-> <<>>]
  /\ style = NoStyle
  /\ pc = "call"
  /\ primReply = NoReply
  /\ secReply = NoReply
  /\ result = NoResult
  /\ primCalls = 0
  /\ secCalls = 0
  /\ trace = <<>>
  /\ arg = a
  /\ ret = NoCall
  /\ other = NoCall

\* the function returns (kind "return") or raises (kind "raise")
Returns(f, r) ==
  /\ mode = f
  /\ pc = "call"
  /\ pc' = "returned"
  /\ ret' = r
  /\ UNCHANGED <<mode, canvas, style, primReply, secReply, result, primCalls,
                 secCalls, trace, arg, other>>

\* the words style texts are made of: the keywords of the nine branches,
\* some in other cases, words that are no keyword, and two halves of "spray"
StyleWords ==
  {Kw.watercolor, Kw.wash, Kw.vangogh, Kw.oil, Kw.impasto, Kw.neon, Kw.glow, Kw.chalk,
   Kw.pastel, Kw.spray, Kw.splatter, Kw.drip, Kw.scatter, Kw.mixed, Kw.stamp,
   Kw.sticker, Kw.collage, <<"O", "I", "L">>, <<"N", "e", "o", "n">>,
   <<"a", "r", "t">>, <<" ">>, <<"s", "p", "r">>, <<"a", "y">>}

RECURSIVE Concat(_)
\* the words of ws written one after the other
Concat(ws) == IF ws = <<>> THEN <<>> ELSE Head(ws) \o Concat(Tail(ws))

\* the style prompts: texts of up to MaxWords words, and None
InitMapper ==
  \E sp \in {Concat(ws) : ws \in SeqsUpTo(StyleWords, MaxWords)} \cup {NoStyle} :
    InitFn("map_style_to_brush", sp)

\* _map_style_to_brush(arg) is called and returns
MapStyle ==
  Returns("map_style_to_brush", [kind |-> "return", val |-> map_style_to_brush(arg)])

SpecMapper == InitMapper /\ [][MapStyle]_vars

\* longest points list of a pathData in the bounding box's specification
MaxPoints == 2

\* entries of a points list: points, a value that is no record, points with
\* an unusable, a missing or a NaN coordinate
PointEntries ==
  {Pt(1, 5), Pt(4, 2), NoPoint, PtOf(BadCoord, Num(3)), PtOf(Num(3), BadCoord),
   PtOf(NoCoord, Num(7)), PtOf(NaNCoord, Num(1))}
\* values of start and of end
EndPoints ==
  {NoPoint, Pt(0, 0), Pt(10, 20), PtOf(Num(1), BadCoord), PtOf(NoCoord, Num(2)),
   PtOf(NaNCoord, Num(2))}
\* the pathData values _bbox_from_path is called with, as the objects that
\* hold them
PathDatas ==
  {BadPathObj}
    \cup {[BaseObj EXCEPT !.ptype = "line", !.tool = "shape", !.pointsKind = pk,
                          !.start = s, !.end = e] :
            pk \in {"absent", "bad"}, s \in EndPoints, e \in EndPoints}
    \cup {[BaseObj EXCEPT !.ptype = "line", !.tool = "shape", !.pointsKind = "list",
                          !.points = ps, !.start = s, !.end = e] :
            ps \in SeqsUpTo(PointEntries, MaxPoints), s \in EndPoints, e \in EndPoints}

InitBBox == \E o \in PathDatas : InitFn("bbox_from_path", o)

\* _bbox_from_path(arg's pathData) is called and returns
BBox == Returns("bbox_from_path", [kind |-> "return", val |-> bbox_from_path(arg)])

SpecBBox == InitBBox /\ [][BBox]_vars

\* longest "objects" list handed to the style post-processing on its own
MaxStyleObjs == 2
\* most post-processing passes run one after the other
MaxPasses == 2

\* "oil wash": a text of the oil class that the mapper's first branch takes
OilWashText == Kw.oil \o <<" ">> \o Kw.wash

\* a second stroke, three wide
WideStroke == [Stroke(Green) EXCEPT !.lw = [num |-> TRUE, v |-> 3]]
\* a stroke whose metadata holds a brushType and nothing else
PartialMetaStroke == [Stroke(Red) EXCEPT !.meta = Meta("", "neon", "")]
\* the stamp of the third worked example of the style prompt: an image data
\* URL and metadata {drawingType: "stamp", stampData: {...}}, no pathData
StampObj ==
  [BaseObj EXCEPT !.pdKind = "absent", !.image = TRUE,
                  !.meta = [Meta("stamp", "", "") EXCEPT !.stampData = "given"]]
\* such a stamp that also has a pathData with start and end
StampWithPath ==
  [Rect(Black) EXCEPT !.image = TRUE,
                      !.meta = [Meta("stamp", "", "") EXCEPT !.stampData = "given"]]

\* elements of the list handed to _postprocess_style_objects; among them a
\* stroke with metadata {}, one with metadata null, and an image object
\* without metadata
StyleObjs ==
  {PlainStroke, WideStroke, StyledStroke, PartialMetaStroke,
   [Stroke(Red) EXCEPT !.meta = Meta("", "", "")],
   [Stroke(Red) EXCEPT !.meta = BadMeta("null")],
   StampObj, StampWithPath,
   [BaseObj EXCEPT !.pdKind = "absent", !.image = TRUE],
   Circle(Black), TextObj("Hi"), StrMetaStroke, TextWidthStroke, NonDictObj}

InitStyle ==
  \E os \in SeqsUpTo(StyleObjs, MaxStyleObjs), st \in {OilText, NeonText, OilWashText} :
    InitFn("postprocess_style_objects", [objects |-> L(os), style |-> st])

\* _postprocess_style_objects(arg.objects, arg.style) is called and returns
\* or raises
Postprocess ==
  LET pp == postprocess_style_objects(arg.objects, arg.style)
  IN Returns("postprocess_style_objects",
             IF pp.raise THEN [kind |-> "raise", val |-> arg.objects]
                         ELSE [kind |-> "return", val |-> pp.val])

\* the list a pass returned is handed to a further pass, same style text
PostprocessAgain ==
  /\ mode = "postprocess_style_objects"
  /\ pc = "returned"
  /\ ret.kind = "return"
  /\ Len(trace) < MaxPasses - 1
  /\ arg' = [objects |-> ret.val, style |-> arg.style]
  /\ ret' = NoCall
  /\ pc' = "call"
  /\ trace' = Append(trace, "again")
  /\ UNCHANGED <<mode, canvas, style, primReply, secReply, result, primCalls,
                 secCalls, other>>

SpecStyle == InitStyle /\ [][Postprocess \/ PostprocessAgain]_vars

\* request bodies of the image endpoint: no JSON, a JSON list, or a record
\* whose prompt, width, height and style are absent, wrongly typed or given
ImageBodies ==
  {[ty |-> "null"], [ty |-> "list"]}
    \cup {[ty |-> "dict", prompt |-> p, width |-> w, height |-> h, style |-> s] :
            p \in {[ty |-> "absent", text |-> <<>>], [ty |-> "num", text |-> <<>>]}
                    \cup {[ty |-> "str", text |-> x] :
                            x \in {<<>>, <<" ">>, <<"c", "a", "t">>, <<" ", "c", " ">>}},
            w \in {0, 256, 512}, h \in {0, 256, 512},
            s \in {<<>>, <<"o", "i", "l">>}}
InitImage == \E b \in ImageBodies : InitFn("text_to_image", b)
\* the handler runs to its end
ImageRoute ==
  \E gen \in {"image", "raises"} :
    Returns("text_to_image", [kind |-> "return", val |-> text_to_image(arg, gen)])
SpecImage == InitImage /\ [][ImageRoute]_vars

\* the message builders, called as the two wrappers of a mode call them
InitMessages ==
  \E m \in Modes, c \in Canvases, st \in StyleTexts :
    InitFn(m, [canvas |-> c, intent |-> st])
\* both wrappers of a mode build their messages for one call
BuildMessages ==
  \E m \in Modes :
    Returns(m, [kind |-> "return",
                val |-> [primary |-> primary_messages(m, arg.canvas, arg.intent),
                         secondary |-> secondary_messages(m, arg.canvas, arg.intent)]])
SpecMessages == InitMessages /\ [][BuildMessages]_vars

\* ------------------------------------------------------------ claims
\* The words of the claims.
Destructive == {"beautify", "style"}
Additive == {"synthesize", "complete", "recognize"}
ObjectsModes == {"synthesize", "beautify", "style"}

\* the Schema Validator of the specification: the shape a reply must have
SchemaValid(m, r) ==
  /\ r.ty = "dict"
  /\ m \in ObjectsModes => r.objects.ty = "list"
  /\ m = "complete" =>
       r.object.ty = "dict" /\ r.complete.ty = "bool" /\ r.confidence.ty = "num"
  /\ m = "recognize" => r.label.ty = "str" /\ r.confidence.ty = "num"

\* a returned value the caller treats as an error payload / as a success
IsErr(res) == res.kind = "return" /\ res.val.ty = "dict" /\ "error" \in res.val.has
IsOk(res) == res.kind = "return" /\ ~IsErr(res)

\* the pipeline's own judgement of a wrapper's return value: an "error" key,
\* no record (style, recognize), or no "objects" key (beautify, style)
Rejected(m, r) ==
  \/ "error" \in r.has
  \/ m \in {"style", "recognize"} /\ r.ty # "dict"
  \/ m \in Destructive /\ "objects" \notin r.has

\* position of the first occurrence of step e in the trace, 0 when absent
Pos(e) ==
  IF \E i \in 1..Len(trace) : trace[i] = e
    THEN CHOOSE i \in 1..Len(trace) : trace[i] = e /\ \A j \in 1..(i - 1) : trace[j] # e
    ELSE 0
Count(e) == Cardinality({i \in 1..Len(trace) : trace[i] = e})

\* C1 (as claimed): in beautify and style, when both backend attempts were
\* made and neither gave a reply with a usable "objects" (a sequence), the
\* returned objects are exactly the input canvasState.objects.
C1_RollbackOnBothFailed ==
  (/\ pc = "done"
   /\ mode \in Destructive
   /\ canvas.hasObjects
   /\ secCalls = 1
   /\ ~SchemaValid(mode, primReply)
   /\ ~SchemaValid(mode, secReply))
  => (result.kind = "return" /\ result.val.objects = L(canvas.objects))

\* C2 (as claimed): a beautify or style call always ends in an Ok result that
\* carries "objects"; never an error payload, never a raised exception.
C2_DestructiveNeverFails ==
  (pc = "done" /\ mode \in Destructive)
  => (IsOk(result) /\ result.val.ty = "dict" /\ "objects" \in result.val.has)

\* C3: the Secondary is called only after the Primary has returned and was
\* judged failed, never while the Primary is in flight; an accepted Primary
\* reply is what the call returns, with no Secondary call.
C3_SecondaryOnlyAfterPrimaryFailed ==
  /\ Count("secondary_call") = secCalls
  /\ secCalls > 0 =>
       /\ 0 < Pos("primary_call")
       /\ Pos("primary_call") < Pos("primary_return")
       /\ Pos("primary_return") < Pos("secondary_call")
       /\ Rejected(mode, primReply)
  /\ (pc = "done" /\ primCalls = 1 /\ ~Rejected(mode, primReply)) =>
       /\ secCalls = 0
       /\ mode # "style" => result = Return(primReply)
       /\ mode = "style" => result = StyleAccepted(primReply, style)
\* C3 witness: a call that ended on an accepted Primary reply
C3_Witness ==
  /\ pc = "done"
  /\ primCalls = 1
  /\ secCalls = 0
  /\ ~Rejected(mode, primReply)
  /\ result = Return(primReply)

\* C4 (as claimed): a Primary reply that does not parse or fails the mode's
\* schema check is followed by exactly one Secondary call and is never the
\* returned result.
C4_InvalidPrimaryFallsBack ==
  (pc = "done" /\ primCalls = 1 /\ ~SchemaValid(mode, primReply))
  => (secCalls = 1 /\ result # Return(primReply))

\* C5 (as claimed): in the additive modes, when no backend gave a reply that
\* parses and passes the schema check, the result is an error.
C5_AdditiveBothInvalidIsError ==
  (/\ pc = "done"
   /\ mode \in Additive
   /\ primCalls = 1
   /\ ~SchemaValid(mode, primReply)
   /\ secCalls = 1 => ~SchemaValid(mode, secReply))
  => IsErr(result)

\* C6 (as claimed): in synthesize, beautify and style every Ok result has a
\* top-level "objects" that is a sequence.
C6_OkObjectsIsSequence ==
  (pc = "done" /\ mode \in ObjectsModes /\ IsOk(result))
  => (result.val.ty = "dict" /\ result.val.objects.ty = "list")

\* C7 (as claimed): in complete every Ok result holds "object" (a record),
\* "complete" (a boolean) and "confidence" (a number).
C7_OkCompleteShape ==
  (pc = "done" /\ mode = "complete" /\ IsOk(result))
  => SchemaValid("complete", result.val)

\* C8 (as claimed): in recognize every Ok result, from the fast path or from
\* a backend, holds "label" (a string) and "confidence" (a number).
C8_OkRecognizeShape ==
  (pc = "done" /\ mode = "recognize" /\ IsOk(result))
  => SchemaValid("recognize", result.val)

\* C9: in recognize the rule-based classifier runs before any backend call,
\* and when it yields a result that result is returned with no call to either
\* backend; one circle gives label "circle" with confidence 0.95.
C9_FastPathBeforeBackends ==
  mode = "recognize" =>
    /\ trace # <<>> => trace[1] = "rule"
    /\ primCalls + secCalls > 0 => Pos("rule") = 1
    /\ rule_based_recognize(canvas.objects).ty = "dict" =>
         /\ primCalls = 0 /\ secCalls = 0
         /\ pc \in {"fast", "done"}
         /\ pc = "done" => result = Return(rule_based_recognize(canvas.objects))
    /\ (pc = "done" /\ canvas.objects = <<Circle(Black)>>) =>
         /\ result.kind = "return"
         /\ result.val.label = S("circle")
         /\ result.val.confidence = N(95)
         /\ primCalls = 0 /\ secCalls = 0
\* C9 witness: scenario A has run
C9_Witness ==
  /\ mode = "recognize"
  /\ pc = "done"
  /\ canvas.objects = <<Circle(Black)>>
  /\ result.val.label = S("circle")
  /\ primCalls = 0

\* the selections of the claim: every element a DrawingObject whose pathData
\* is a record
Typed(objs) == \A i \in 1..Len(objs) : objs[i].isDict /\ objs[i].pdKind = "dict"
IsTextPrimitive(o) == o.ptype = "text" /\ o.text.isStr
NumOfType(objs, t) == Cardinality({i \in 1..Len(objs) : objs[i].ptype = t})
NumTriangles(objs) ==
  Cardinality({i \in 1..Len(objs) :
                 objs[i].ptype = "polygon" /\ Len(objs[i].points) = 3})
OneCircleOnly(objs) == Len(objs) = 1 /\ objs[1].ptype = "circle"
HasText(objs) == \E i \in 1..Len(objs) : IsTextPrimitive(objs[i])
\* the text literal of the first text primitive in input order
FirstLiteral(objs) ==
  objs[CHOOSE i \in 1..Len(objs) :
         IsTextPrimitive(objs[i]) /\ \A j \in 1..(i - 1) : ~IsTextPrimitive(objs[j])].text.s

\* C10: rules are tried in the order single circle, text, car, house, tree.
\* A selection with a text primitive (not one lone circle) is labelled with
\* the first text literal, confidence 0.98, whatever else matches; a selection
\* matching both the car and the house rule, without text, is labelled "car".
C10_RuleOrder ==
  (mode = "recognize" /\ pc # "fast" /\ Typed(canvas.objects)) =>
    LET objs == canvas.objects
    IN /\ OneCircleOnly(objs) => result = Return(RuleHit("circle", 95))
       /\ (HasText(objs) /\ ~OneCircleOnly(objs)) =>
            result = Return(RuleHit("text: '" \o FirstLiteral(objs) \o "'", 98))
       /\ (/\ ~HasText(objs)
           /\ NumOfType(objs, "rectangle") >= 1
           /\ NumTriangles(objs) >= 1
           /\ NumOfType(objs, "circle") >= 2) =>
            result = Return(RuleHit("car", 90))
\* C10 witness: rectangle, triangle and two circles, labelled "car"
C10_Witness ==
  /\ pc = "done"
  /\ Typed(canvas.objects)
  /\ ~HasText(canvas.objects)
  /\ NumOfType(canvas.objects, "rectangle") >= 1
  /\ NumTriangles(canvas.objects) >= 1
  /\ NumOfType(canvas.objects, "circle") >= 2
  /\ result = Return(RuleHit("car", 90))

\* squared RGB distance of an object's colour from a target colour
DistSq(o, target) ==
  LET c == hex_to_rgb(o.color)
  IN (c[1] - target[1]) * (c[1] - target[1])
       + (c[2] - target[2]) * (c[2] - target[2])
       + (c[3] - target[3]) * (c[3] - target[3])
IsFreehandStroke(o) == o.tool = "freehand"
\* a rule before the tree rule applies to the selection
EarlierRule(objs) ==
  \/ OneCircleOnly(objs)
  \/ HasText(objs)
  \/ (NumOfType(objs, "rectangle") + NumOfType(objs, "polygon") >= 1
        /\ NumOfType(objs, "circle") >= 2)
  \/ (NumOfType(objs, "rectangle") >= 1 /\ NumTriangles(objs) >= 1)
IsTree(res) == res.kind = "return" /\ res.val.label = S("tree")

\* C11 (as claimed): a freehand stroke farther than 100 from brown is no
\* trunk: a selection none of whose freehand strokes is within 100 of brown
\* is not labelled "tree".
C11_TrunkWithin100 ==
  (mode = "recognize" /\ pc # "fast" /\ Typed(canvas.objects)
   /\ \A i \in 1..Len(canvas.objects) :
        IsFreehandStroke(canvas.objects[i]) =>
          DistSq(canvas.objects[i], <<139, 69, 19>>) > 100 * 100)
  => ~IsTree(result)
\* C11 (amended): the threshold is 120 for brown as for green.  A selection
\* none of whose freehand strokes is within 120 of brown is not labelled
\* "tree"; a selection no earlier rule applies to, with a freehand stroke
\* within 120 of brown (also one farther than 100) and a separate freehand
\* stroke within 120 of green, is labelled "tree" with confidence 0.88.
C11_TrunkWithin120 ==
  (mode = "recognize" /\ pc # "fast" /\ Typed(canvas.objects)) =>
    LET objs == canvas.objects
    IN /\ (\A i \in 1..Len(objs) :
              IsFreehandStroke(objs[i]) => DistSq(objs[i], <<139, 69, 19>>) > 120 * 120)
            => ~IsTree(result)
       /\ (/\ ~EarlierRule(objs)
           /\ \E i, j \in 1..Len(objs) :
                /\ i # j
                /\ IsFreehandStroke(objs[i]) /\ IsFreehandStroke(objs[j])
                /\ DistSq(objs[i], <<139, 69, 19>>) <= 120 * 120
                /\ DistSq(objs[j], <<34, 139, 34>>) <= 120 * 120)
            => result = Return(RuleHit("tree", 88))
\* C11 witness: a stroke at distance 110 from brown and a green stroke,
\* labelled "tree"
C11_Witness ==
  /\ pc = "done"
  /\ canvas.objects = <<Stroke(Hex(<<15, 9, 4, 5, 1, 3>>)), Stroke(Green)>>
  /\ DistSq(Stroke(Hex(<<15, 9, 4, 5, 1, 3>>)), <<139, 69, 19>>) > 100 * 100
  /\ result = Return(RuleHit("tree", 88))

\* C12 (as claimed): the trunk and the foliage are two distinct strokes: a
\* selection with a single freehand stroke is never labelled "tree".
C12_SingleStrokeNoTree ==
  (/\ mode = "recognize" /\ pc # "fast" /\ Typed(canvas.objects)
   /\ Cardinality({i \in 1..Len(canvas.objects) :
                     IsFreehandStroke(canvas.objects[i])}) <= 1)
  => ~IsTree(result)

\* the rows of the style table: keywords, brushType, params
StyleTable ==
  <<[kw |-> {Kw.watercolor, Kw.wash}, brush |-> "spray", params |-> "watercolor"],
    [kw |-> {Kw.vangogh, Kw.oil, Kw.impasto}, brush |-> "mixed", params |-> "oil"],
    [kw |-> {Kw.neon, Kw.glow}, brush |-> "neon", params |-> "neon"],
    [kw |-> {Kw.chalk, Kw.pastel}, brush |-> "chalk", params |-> "chalk"],
    [kw |-> {Kw.spray, Kw.splatter}, brush |-> "spray", params |-> "spray"],
    [kw |-> {Kw.drip}, brush |-> "drip", params |-> "drip"],
    [kw |-> {Kw.scatter}, brush |-> "scatter", params |-> "scatter"],
    [kw |-> {Kw.mixed}, brush |-> "mixed", params |-> "mixed"],
    [kw |-> {Kw.stamp, Kw.sticker, Kw.collage}, brush |-> "normal", params |-> "stamp"]>>
\* the characters of a style prompt (none when it is absent)
TextOf(sp) == IF sp = NoStyle THEN <<>> ELSE sp
\* keyword kw occurs in text tx, letter case ignored
Occurs(tx, kw) ==
  \E i \in 0..(Len(tx) - Len(kw)) : \A j \in 1..Len(kw) : LowerChar(tx[i + j]) = kw[j]
RowMatches(sp, i) == \E kw \in StyleTable[i].kw : Occurs(TextOf(sp), kw)

\* C13: the style mapper returns a (brushType, params) pair for every style
\* text, the empty and the absent one included, never raising; a text with
\* none of the table's keywords gives ("normal", {}).
C13_MapperTotal ==
  (mode = "map_style_to_brush" /\ pc = "returned") =>
    /\ ret.kind = "return"
    /\ ret.val[1] \in {"normal", "spray", "mixed", "neon", "chalk", "drip", "scatter"}
    /\ (\A i \in 1..9 : ~RowMatches(arg, i)) => ret.val = <<"normal", "none">>
\* C13 witness: the absent text has been mapped to ("normal", {})
C13_Witness ==
  /\ mode = "map_style_to_brush"
  /\ pc = "returned"
  /\ arg = NoStyle
  /\ ret = [kind |-> "return", val |-> <<"normal", "none">>]

\* C14: matching ignores letter case and the first matching row of the nine
\* decides: a text with a keyword of row i and none of an earlier row gives
\* row i's brushType and params.
C14_FirstRowWins ==
  (mode = "map_style_to_brush" /\ pc = "returned") =>
    \A i \in 1..9 :
      (RowMatches(arg, i) /\ \A j \in 1..(i - 1) : ~RowMatches(arg, j))
        => ret.val = <<StyleTable[i].brush, StyleTable[i].params>>
\* C14 witness: "OIL" followed by "spray" (rows 2 and 5) is mapped by row 2
C14_Witness ==
  /\ mode = "map_style_to_brush"
  /\ pc = "returned"
  /\ arg = <<"O", "I", "L">> \o Kw.spray
  /\ ret.val = <<"mixed", "oil">>

\* a pathData of the data model: a record whose points, when present, is a
\* list of points with numbers, and whose start and end, when present, are
\* points with numbers
IsNumPoint(p) == p.ok /\ p.x.k = "num" /\ p.y.k = "num"
WellTypedPath(o) ==
  /\ o.pdKind = "dict"
  /\ o.pointsKind \in {"absent", "list"}
  /\ \A i \in 1..Len(o.points) : IsNumPoint(o.points[i])
  /\ o.start = NoPoint \/ IsNumPoint(o.start)
  /\ o.end = NoPoint \/ IsNumPoint(o.end)
HasPointSequence(o) == o.pointsKind = "list" /\ Len(o.points) > 0
HasStartAndEnd(o) == o.start.ok /\ o.end.ok

\* C15 (as claimed): the bounding box is defined if and only if pathData has
\* a non-empty point sequence or both start and end; an empty points list
\* with start and end gives the box of start and end.
C15_BoxIffGeometry ==
  (mode = "bbox_from_path" /\ pc = "returned" /\ WellTypedPath(arg)) =>
    /\ ret.val.ok <=> (HasPointSequence(arg) \/ HasStartAndEnd(arg))
    /\ (~HasPointSequence(arg) /\ HasStartAndEnd(arg)) =>
         /\ ret.val.min_x = Num(Min(arg.start.x.v, arg.end.x.v))
         /\ ret.val.max_x = Num(Max(arg.start.x.v, arg.end.x.v))
         /\ ret.val.min_y = Num(Min(arg.start.y.v, arg.end.y.v))
         /\ ret.val.max_y = Num(Max(arg.start.y.v, arg.end.y.v))

\* a <= b on the bounds of a box (false when either is NaN)
Le(a, b) == a.k = "num" /\ b.k = "num" /\ a.v <= b.v

\* C16 (as claimed): the bounding box function never raises, whatever the
\* pathData, and every box it returns has min_x <= max_x and min_y <= max_y.
C16_BoxNeverRaisesOrdered ==
  (mode = "bbox_from_path" /\ pc = "returned") =>
    /\ ret.kind = "return"
    /\ ret.val.ok =>
         Le(ret.val.min_x, ret.val.max_x) /\ Le(ret.val.min_y, ret.val.max_y)

\* a post-processing call has returned a list
StyleReturned ==
  /\ mode = "postprocess_style_objects"
  /\ pc = "returned"
  /\ ret.kind = "return"
\* the style text is in the oil/impasto class: a keyword of row 2 occurs
OilClassText(sp) == RowMatches(sp, 2)
\* the object carries a metadata field; carries a metadata record
CarriesMetadata(o) == o.isDict /\ o.meta.ty # "absent"
CarriesMetadataRecord(o) == o.isDict /\ o.meta.ty = "dict"

\* C17 (as claimed): if any object of the response carries an explicit
\* metadata field, of whatever kind, no overlay is appended; overlays are
\* appended only for an oil-class style text and a response in which no
\* object carries metadata.
C17_OverlaysAllOrNothing ==
  StyleReturned =>
    LET ins == arg.objects.items
        outs == ret.val.items
    IN /\ (\E i \in 1..Len(ins) : CarriesMetadata(ins[i])) => Len(outs) = Len(ins)
       /\ Len(outs) > Len(ins) =>
            /\ OilClassText(arg.style)
            /\ \A i \in 1..Len(ins) : ~CarriesMetadata(ins[i])

\* what the style table gives for a style text: the first matching row's
\* brushType and params, ("normal", {}) when no row matches
TableEntry(sp) ==
  IF \E i \in 1..9 : RowMatches(sp, i)
    THEN LET r == CHOOSE i \in 1..9 :
                    RowMatches(sp, i) /\ \A j \in 1..(i - 1) : ~RowMatches(sp, j)
         IN <<StyleTable[r].brush, StyleTable[r].params>>
    ELSE <<"normal", "none">>

\* C18 (as claimed): an object that carries a metadata record has, in the
\* output, exactly the metadata it had in the response.
C18_ExplicitMetadataUntouched ==
  StyleReturned =>
    \A i \in 1..Len(arg.objects.items) :
      CarriesMetadataRecord(arg.objects.items[i]) =>
        ret.val.items[i].meta = arg.objects.items[i].meta
\* C18 (amended): every field an explicit metadata record holds keeps its
\* value and none is removed; the fields it lacks among drawingType,
\* brushType and brushParams (for an image object: drawingType and stampData)
\* are added with the defaults, and no other field is added.
C18_ExplicitMetadataKept ==
  StyleReturned =>
    \A i \in 1..Len(arg.objects.items) :
      CarriesMetadataRecord(arg.objects.items[i]) =>
        LET o == arg.objects.items[i]
            a == o.meta
            b == ret.val.items[i].meta
            d == TableEntry(arg.style)
        IN /\ b.ty = "dict"
           /\ a.drawingType # "" => b.drawingType = a.drawingType
           /\ a.brushType # "" => b.brushType = a.brushType
           /\ a.brushParams # "" => b.brushParams = a.brushParams
           /\ a.stampData # "" => b.stampData = a.stampData
           /\ o.image =>
                /\ a.drawingType = "" => b.drawingType = "image"
                /\ a.stampData = "" => b.stampData = "derived"
                /\ a.brushType = "" => b.brushType = ""
                /\ a.brushParams = "" => b.brushParams = ""
           /\ ~o.image =>
                /\ a.drawingType = "" => b.drawingType = "stroke"
                /\ a.brushType = "" => b.brushType = d[1]
                /\ a.brushParams = "" => b.brushParams = d[2]
                /\ a.stampData = "" => b.stampData = ""
\* C18 witness: metadata {brushType: "neon"} has come out with its brushType
\* and with drawingType and brushParams added
C18_Witness ==
  /\ StyleReturned
  /\ arg.objects.items # <<>>
  /\ arg.objects.items[1] = PartialMetaStroke
  /\ arg.style = OilText
  /\ ret.val.items[1].meta = Meta("stroke", "neon", "oil")

\* the response of C19: records of the data model that are no image, carry
\* no metadata field and have a bounding box
UnstyledStrokes(objs) ==
  /\ objs # <<>>
  /\ \A i \in 1..Len(objs) :
       /\ objs[i].isDict /\ ~objs[i].image /\ objs[i].lw.num
       /\ objs[i].meta.ty = "absent"
       /\ bbox_from_path(objs[i]).ok
\* the output holds the n objects of the response in order, each with the
\* default metadata of brushType brush, then two overlay strokes per object
TaggedThenOverlays(ins, outs, brush) ==
  /\ Len(outs) = 3 * Len(ins)
  /\ \A i \in 1..Len(ins) :
       /\ outs[i].meta.ty = "dict"
       /\ outs[i].meta.brushType = brush
       /\ [outs[i] EXCEPT !.meta = NoMeta] = ins[i]
  /\ \A k \in (Len(ins) + 1)..Len(outs) :
       /\ outs[k].tool = "freehand"
       /\ outs[k].ptype = "stroke"
       /\ outs[k].pointsKind = "list"
       /\ outs[k].color = outs[Len(ins) + 2 * ((k - Len(ins) + 1) \div 2)].color

\* C19 (as claimed): for an oil-class style text and n unstyled stroke
\* objects with a bounding box, the output has 3n objects: the n objects in
\* order, each tagged brushType "mixed", then two overlay strokes per object.
C19_MixedPlusTwoOverlays ==
  (/\ mode = "postprocess_style_objects" /\ pc = "returned"
   /\ OilClassText(arg.style)
   /\ UnstyledStrokes(arg.objects.items))
  => /\ ret.kind = "return"
     /\ TaggedThenOverlays(arg.objects.items, ret.val.items, "mixed")
\* C19 (amended): as claimed, but each object is tagged with the brushType
\* the style mapper gives for the text: "mixed" unless the text also holds a
\* keyword of the table's first row (watercolor, wash), and then "spray".
C19_TaggedPlusTwoOverlays ==
  (/\ mode = "postprocess_style_objects" /\ pc = "returned"
   /\ OilClassText(arg.style)
   /\ UnstyledStrokes(arg.objects.items))
  => /\ ret.kind = "return"
     /\ TaggedThenOverlays(arg.objects.items, ret.val.items,
                           IF RowMatches(arg.style, 1) THEN "spray" ELSE "mixed")
\* C19 witness: two unstyled strokes under "Van Gogh OIL" have come out as
\* six objects
C19_Witness ==
  /\ StyleReturned
  /\ arg.style = OilText
  /\ arg.objects.items = <<PlainStroke, WideStroke>>
  /\ Len(ret.val.items) = 6
  /\ ret.val.items[2].meta.brushType = "mixed"

\* C20 (as claimed): post-processing a list in which every object carries an
\* explicit metadata record (the output of an earlier pass included) appends
\* no overlay: the output is as long as the input.
C20_NoOverlaysOnSecondPass ==
  (StyleReturned
   /\ \A i \in 1..Len(arg.objects.items) : CarriesMetadataRecord(arg.objects.items[i]))
  => Len(ret.val.items) = Len(arg.objects.items)

\* the reply the style pipeline accepted: the Primary's, else the Secondary's
StyleAcceptedReply ==
  IF ~Rejected("style", primReply) THEN primReply ELSE secReply
StyleReplyAccepted ==
  /\ mode = "style"
  /\ pc = "done"
  /\ \/ ~Rejected("style", primReply)
     \/ secCalls = 1 /\ ~Rejected("style", secReply)

\* C21 (as claimed): no exception of the post-processing escapes the style
\* pipeline: for an accepted reply whose objects is a sequence the call
\* returns Ok, and when post-processing failed the reply's objects come back
\* unmodified.
C21_PostprocessNeverEscapes ==
  (StyleReplyAccepted /\ StyleAcceptedReply.objects.ty = "list") =>
    /\ IsOk(result)
    /\ postprocess_style_objects(StyleAcceptedReply.objects, style).raise =>
         result.val.objects = StyleAcceptedReply.objects

C23_EndsWithoutRetry ==
  /\ [](primCalls <= 1 /\ secCalls <= 1)
  /\ [](Count("primary_call") = primCalls /\ Count("secondary_call") = secCalls)
  /\ <>(pc = "done" /\ result # NoResult)
\* a call that ended after one call to each backend
C23_Witness ==
  pc = "done" /\ result # NoResult /\ primCalls = 1 /\ secCalls = 1

\* C24: in the list style post-processing returns, every record object
\* carries a metadata record with a drawingType; an image-like object that
\* had no metadata has drawingType "image" and a stampData built from its
\* own fields, every other object that had no metadata has drawingType
\* "stroke" with the brushType and brushParams of the style table.
C24_EveryObjectTyped ==
  StyleReturned =>
    LET ins == arg.objects.items
        outs == ret.val.items
        d == TableEntry(arg.style)
    IN /\ \A i \in 1..Len(outs) :
            outs[i].isDict =>
              outs[i].meta.ty = "dict" /\ outs[i].meta.drawingType # ""
       /\ \A i \in 1..Len(ins) :
            (ins[i].isDict /\ ins[i].meta.ty = "absent") =>
              IF ins[i].image
                THEN outs[i].meta = [Meta("image", "", "") EXCEPT !.stampData = "derived"]
                ELSE outs[i].meta = Meta("stroke", d[1], d[2])
\* an image object and a stroke, both without metadata, have come out typed
C24_Witness ==
  /\ StyleReturned
  /\ Len(arg.objects.items) = 2
  /\ arg.objects.items[1].image /\ arg.objects.items[1].meta.ty = "absent"
  /\ arg.objects.items[2] = PlainStroke
  /\ ret.val.items[1].meta.drawingType = "image"
  /\ ret.val.items[2].meta.drawingType = "stroke"

\* what a pipeline call returns when it runs alone: the fast path's result,
\* else the Primary's reply when accepted, else what the fallback gives
RunAlone(m, c, st, pr, sr) ==
  LET f == recognize_fast_path(c.objects)
      a == AfterPrimary(m, pr, st)
  IN IF m = "recognize" /\ f.next = "done" THEN f.result
     ELSE IF a.next = "done" THEN a.result
     ELSE AfterFallback(m, sr, st, c)

PrimaryErrorCodes ==
  {PrimaryBackend(m, Failed(k)).err : m \in Modes, k \in {"nokey", "exception"}}

\* C26: in the additive modes, an error handed back after both attempts is
\* the Secondary wrapper's error payload, with the Secondary's code and
\* detail; it is not the Primary's.
C26_LastFailureReturned ==
  (pc = "done" /\ mode \in Additive /\ secCalls = 1 /\ IsErr(result)) =>
    /\ "error" \in primReply.has \/ primReply.ty # "dict"
    /\ result.val = secReply
    /\ result.val.err \notin PrimaryErrorCodes
    /\ result.val.detail = secReply.detail
\* the Primary failed for want of a key, the Secondary with an unparsable
\* reply, and the error returned holds the latter
C26_Witness ==
  /\ pc = "done" /\ mode = "synthesize" /\ secCalls = 1
  /\ primReply = ErrorPayload("openai_not_configured", "nokey")
  /\ result = Return(ErrorPayload("ollama_failed", "unparsable"))

\* the two overlays made for the i-th of n source objects that all get
\* overlays: they follow the n objects, two per object, in order
OverlayOf(outs, n, i, k) == outs[n + 2 * (i - 1) + k]

\* C27 (as claimed): for a source object of line width w the two overlays
\* have the widths max(2, w * 1.0) and max(2, w * 1.3), the product neither
\* rounded nor truncated (widths compared in tenths).
C27_OverlayWidthsExact ==
  (StyleReturned /\ OilClassText(arg.style) /\ UnstyledStrokes(arg.objects.items)) =>
    LET ins == arg.objects.items
        outs == ret.val.items
    IN \A i \in 1..Len(ins) :
         /\ OverlayOf(outs, Len(ins), i, 1).lw.v * 10 = Max(20, ins[i].lw.v * LwMult1)
         /\ OverlayOf(outs, Len(ins), i, 2).lw.v * 10 = Max(20, ins[i].lw.v * LwMult2)
\* C27 (amended): the two overlays have the widths max(2, w * 1.0) and
\* max(2, w * 1.3) with the product truncated to a whole number: each width
\* is the greatest whole number not above the claimed value (w = 3 gives a
\* second overlay of width 3, w = 10 gives 13).
C27_OverlayWidthsTruncated ==
  (StyleReturned /\ OilClassText(arg.style) /\ UnstyledStrokes(arg.objects.items)) =>
    LET ins == arg.objects.items
        outs == ret.val.items
    IN \A i \in 1..Len(ins) :
         LET v1 == OverlayOf(outs, Len(ins), i, 1).lw
             v2 == OverlayOf(outs, Len(ins), i, 2).lw
         IN /\ v1.num /\ v2.num
            /\ v1.v * 10 <= Max(20, ins[i].lw.v * LwMult1)
            /\ Max(20, ins[i].lw.v * LwMult1) < (v1.v + 1) * 10
            /\ v2.v * 10 <= Max(20, ins[i].lw.v * LwMult2)
            /\ Max(20, ins[i].lw.v * LwMult2) < (v2.v + 1) * 10
\* C27 witness: a stroke of width 3 has got overlays of widths 3 and 3
C27_Witness ==
  /\ StyleReturned
  /\ arg.style = OilText
  /\ arg.objects.items = <<WideStroke>>
  /\ Len(ret.val.items) = 3
  /\ ret.val.items[2].lw.v = 3
  /\ ret.val.items[3].lw.v = 3

\* the list is framed as claimed: the mode's instruction, then at least one
\* worked example (a user message, then its assistant answer), and last the
\* request with the serialized canvas data
Framed(msgs, m, c) ==
  /\ Len(msgs) >= 4
  /\ msgs[1].kind = "instruction" /\ msgs[1].of = m
  /\ msgs[2].kind = "example" /\ msgs[2].role = "user"
  /\ msgs[3].kind = "example" /\ msgs[3].role = "assistant"
  /\ msgs[Len(msgs)].kind = "request" /\ msgs[Len(msgs)].canvas = c

\* C28 (as claimed): in every mode, recognize included, the messages sent to
\* a backend are the instruction, at least one worked example and last the
\* current request, and the Secondary is sent the same list as the Primary.
C28_FramedWithExample ==
  (mode \in Modes /\ pc = "returned") =>
    /\ Framed(ret.val.primary, mode, arg.canvas)
    /\ ret.val.secondary = ret.val.primary

\* C29: a reply that is a record with a top-level "error" key counts as a
\* failed attempt in every mode, whatever else it holds: after such a Primary
\* reply the Secondary is called, and after such a Secondary reply the
\* result is an error payload (additive modes) or the rollback to the
\* original objects (beautify, style).
C29_ErrorKeyMeansFailed ==
  /\ (primReply.ty = "dict" /\ "error" \in primReply.has) =>
       /\ pc \in {"secondary", "secondary_wait", "done"}
       /\ pc = "done" => secCalls = 1
  /\ (pc = "done" /\ secReply.ty = "dict" /\ "error" \in secReply.has) =>
       IF mode \in Additive THEN IsErr(result)
                            ELSE result = Return(Rollback(canvas))
\* both backends replied with a schema-valid record that also holds "error",
\* and beautify rolled back
C29_Witness ==
  /\ pc = "done" /\ mode = "beautify" /\ secCalls = 1
  /\ primReply.err = "model_error" /\ SchemaValid(mode, primReply)
  /\ secReply.err = "model_error" /\ SchemaValid(mode, secReply)
  /\ canvas.objects # <<>>
  /\ result = Return(Rollback(canvas))

\* the request has a prompt that is a string with a non-blank character
UsablePrompt(b) ==
  /\ b.ty = "dict"
  /\ b.prompt.ty = "str"
  /\ \E i \in 1..Len(b.prompt.text) : b.prompt.text[i] # " "

\* C30 (as claimed): the image endpoint handler always hands back a
\* response: with a usable prompt it has called the generator and answers
\* 200 with imageDataUrl or 502 image_generation_failed; with a missing or
\* blank prompt it answers 400 bad_request and has not called the generator.
C30_ImageAlwaysResponds ==
  (mode = "text_to_image" /\ pc = "returned") =>
    /\ ret.val # NoResponse
    /\ UsablePrompt(arg) =>
         /\ ret.val.generated
         /\ \/ ret.val.status = 200 /\ ret.val.body = "imageDataUrl"
            \/ ret.val.status = 502 /\ ret.val.body = "image_generation_failed"
    /\ (arg.ty = "dict" /\ ~UsablePrompt(arg) /\ arg.prompt.ty \in {"absent", "str"}) =>
         ret.val = Response(400, "bad_request", FALSE)

====
